---- MODULE Spec2Model ----
(***************************************************************************)
(* Model of the command-execution engine of linux_shell_server/main.py:    *)
(* CommandCache (get/set) and ShellExecutor (execute_command with its      *)
(* timeout supervision, change_directory, get_current_directory).          *)
(*                                                                         *)
(* Text is modelled at two levels.  Commands, paths and cache keys are     *)
(* sequences of one-character strings, so that str.split, str.strip, the   *)
(* substring test and the key concatenation work as in Python.  Result     *)
(* outputs are sequences of pieces (literal, characters, number, captured  *)
(* stream text); concatenation of outputs is concatenation of sequences.   *)
(***************************************************************************)
EXTENDS Integers, Sequences, FiniteSets, TLC

VARIABLES
    current_directory,  \* ShellExecutor.current_directory
    cache,              \* CommandCache.cache: key -> [ref, timestamp]; `live` remembers
                        \* the result as the live execution returned it
    heap,               \* the result dicts that are still referenced: id -> dict
    now,                \* time.time()
    pc,                 \* position of the execute_command call that runs or ran last
    call,               \* its locals: command, cwd, cache_key, timeout
    proc,               \* its subprocess: the process group of the shell child
    has_killpg,         \* hasattr(os, 'killpg'): the platform signals process groups
    fs,                 \* the directories that exist (the environment decides)
    sup,                \* what its timeout supervision has done so far
    last,               \* the result the last finished operation returned
    escaped,            \* an exception left a public operation
    parked              \* the other execute_command calls in flight, each suspended
                        \* at an await: their pc, call, proc and sup

vars == <<current_directory, cache, heap, now, pc, call, proc,
          has_killpg, fs, sup, last, escaped, parked>>

----------------------------------------------------------------------------
(* Bounds of the model *)

\* a cached result is served while it carries fewer markers than this
MaxMarkers == 2
\* the clock stops here
MaxTime == 60
\* execute_command calls in flight at one time
MaxInFlight == 2

TickSteps == {30}

(* Program constants *)

DEFAULT_TIMEOUT == 30
MAX_TIMEOUT == 120
MAX_OUTPUT_SIZE == 10000
CACHE_DURATION == 60

LONG_RUNNING_COMMANDS ==
    { <<"f","i","n","d">>, <<"g","r","e","p">>, <<"d","u">>, <<"t","a","r">>,
      <<"z","i","p">>, <<"r","s","y","n","c">>, <<"c","p">>, <<"m","v">> }

CACHEABLE_COMMANDS ==
    { <<"l","s">>, <<"p","w","d">>, <<"w","h","o","a","m","i">>, <<"i","d">>,
      <<"d","a","t","e">>, <<"h","o","s","t","n","a","m","e">>,
      <<"u","n","a","m","e">> }

\* Path.home() and Path.home() / "claude-workspace"
HOME == <<"/","h">>
CLAUDE_WORKSPACE_DIR == HOME \o <<"/","w">>

CACHE_MARKER == "\n\n[Result from cache]"

----------------------------------------------------------------------------
(* Python string operations on character sequences *)

IsSpace(c) == c \in {" ", "\t", "\n"}

RECURSIVE LStrip(_)
LStrip(s) == IF s # <<>> /\ IsSpace(Head(s)) THEN LStrip(Tail(s)) ELSE s

RECURSIVE RStrip(_)
RStrip(s) ==
    IF s # <<>> /\ IsSpace(s[Len(s)]) THEN RStrip(SubSeq(s, 1, Len(s) - 1)) ELSE s

\* a strip that removes nothing
StripNothing(s) == s

Strip(s) == RStrip(LStrip(s))

RECURSIVE TakeWord(_)
TakeWord(s) ==
    IF s = <<>> \/ IsSpace(Head(s)) THEN <<>> ELSE <<Head(s)>> \o TakeWord(Tail(s))

RECURSIVE Split(_)
Split(s) ==
    LET t == LStrip(s)
        w == TakeWord(t)
    IN  IF t = <<>> THEN <<>>
        ELSE <<w>> \o Split(SubSeq(t, Len(w) + 1, Len(t)))

Contains(s, sub) ==
    \E i \in 1..(Len(s) - Len(sub) + 1) : SubSeq(s, i, i + Len(sub) - 1) = sub

----------------------------------------------------------------------------
(* Output text: a sequence of pieces *)

Lit(s) == [k |-> "lit", s |-> s, cs |-> <<>>, n |-> 0]
Chars(cs) == [k |-> "chars", s |-> "", cs |-> cs, n |-> 0]
Num(n) == [k |-> "num", s |-> "", cs |-> <<>>, n |-> n]
Text(tag, len) == [k |-> "text", s |-> tag, cs |-> <<>>, n |-> len]

\* the decoded text of a captured stream [tag, len]
Decode(stream) == IF stream.len = 0 THEN <<>> ELSE <<Text(stream.tag, stream.len)>>

\* len(str(n)) of a number that is not negative
RECURSIVE Digits(_)
Digits(n) == IF n < 10 THEN 1 ELSE 1 + Digits(n \div 10)

\* len() of one piece
PieceLen(piece) ==
    CASE piece.k = "text" -> piece.n
      [] piece.k = "lit" -> Len(piece.s)
      [] piece.k = "chars" -> Len(piece.cs)
      [] piece.k = "num" -> Digits(piece.n)

\* len(text) of an output text
RECURSIVE TextLen(_)
TextLen(t) == IF t = <<>> THEN 0 ELSE PieceLen(Head(t)) + TextLen(Tail(t))

RECURSIVE Join(_, _)
Join(sep, parts) ==
    IF parts = <<>> THEN <<>>
    ELSE IF Len(parts) = 1 THEN parts[1]
    ELSE parts[1] \o sep \o Join(sep, Tail(parts))

Markers(out) == Cardinality({i \in 1..Len(out) : out[i] = Lit(CACHE_MARKER)})

----------------------------------------------------------------------------
(* The file system the executor sees *)

ROOT == <<"/">>
MISSING == <<"/","x">>        \* does not exist
AFILE == <<"/","f">>          \* exists, is a regular file
LOCKED == <<"/","p">>         \* an existing directory that cannot be listed

\* an existence test that every path passes
ExistsAnything(p) == TRUE

\* os.path.exists
Exists(p) == p \in fs \/ p = AFILE
\* os.path.isdir
IsDir(p) == p \in fs
\* os.listdir raises PermissionError
ListDenied(p) == p = LOCKED

----------------------------------------------------------------------------
(* CommandCache *)

\* a lookup that never finds an entry too old
FreshForever(key) == TRUE

Fresh(key) == now - cache[key].timestamp < CACHE_DURATION

\* CommandCache.get: the reference returned, 0 for None
CacheGet(key) == IF key \in DOMAIN cache /\ Fresh(key) THEN cache[key].ref ELSE 0

\* a CommandCache.get that deletes every entry it finds expired
CacheAfterGetPurgeAll(key) ==
    [k \in {j \in DOMAIN cache : Fresh(j)} |-> cache[k]]

\* CommandCache.get: the cache it leaves behind (an expired entry is deleted)
CacheAfterGet(key) ==
    IF key \in DOMAIN cache /\ ~Fresh(key)
    THEN [k \in DOMAIN cache \ {key} |-> cache[k]]
    ELSE cache

\* key.split()[0] if key.split() else ""
CommandStart(key) == IF Split(key) # <<>> THEN Split(key)[1] ELSE <<>>

\* CommandCache.set without its test of result["error"]
StorableWhateverResult(key, result) == CommandStart(key) \in CACHEABLE_COMMANDS

\* CommandCache.set without its test of the command's name
StorableWhateverCommand(key, result) == ~result.error

\* the two conditions of CommandCache.set
Storable(key, result) == ~result.error /\ CommandStart(key) \in CACHEABLE_COMMANDS

\* CommandCache.set on cache c: stores a reference to the result dict
CacheSet(c, key, ref, result) ==
    IF Storable(key, result)
    THEN [k \in DOMAIN c \cup {key} |->
            IF k = key THEN [ref |-> ref, timestamp |-> now, live |-> result] ELSE c[k]]
    ELSE c

----------------------------------------------------------------------------
(* ShellExecutor helpers *)

\* a _determine_timeout that looks at the first token only
DetermineTimeoutFirstToken(command) ==
    LET command_parts == Split(Strip(command))
    IN  IF command_parts = <<>> THEN DEFAULT_TIMEOUT
        ELSE IF command_parts[1] \in LONG_RUNNING_COMMANDS THEN MAX_TIMEOUT
        ELSE DEFAULT_TIMEOUT

\* _determine_timeout
DetermineTimeout(command) ==
    LET command_parts == Split(Strip(command))
    IN  IF command_parts = <<>> THEN DEFAULT_TIMEOUT
        ELSE IF \E cmd \in LONG_RUNNING_COMMANDS : Contains(command, cmd)
             THEN MAX_TIMEOUT
        ELSE IF command_parts[1] \in LONG_RUNNING_COMMANDS THEN MAX_TIMEOUT
        ELSE DEFAULT_TIMEOUT

\* a _truncate_output that already cuts a text of exactly the maximum length
TruncateOutputAtMax(stream) ==
    IF stream.len >= MAX_OUTPUT_SIZE
    THEN <<Text(stream.tag, MAX_OUTPUT_SIZE),
           Lit("\n... (output truncated, showing first "), Num(MAX_OUTPUT_SIZE),
           Lit(" characters)")>>
    ELSE Decode(stream)

\* _truncate_output on the decoded text of one captured stream
TruncateOutput(stream) ==
    IF stream.len > MAX_OUTPUT_SIZE
    THEN <<Text(stream.tag, MAX_OUTPUT_SIZE),
           Lit("\n... (output truncated, showing first "), Num(MAX_OUTPUT_SIZE),
           Lit(" characters)")>>
    ELSE Decode(stream)

\* an output_text that prints both blocks whatever the streams hold
ComposeOutputBothBlocks(stdout_text, stderr_text, exit_code, cwd) ==
    <<Lit("STDOUT:\n")>> \o stdout_text \o <<Lit("\n\n"), Lit("STDERR:\n")>> \o stderr_text
        \o <<Lit("\n\nExit code: "), Num(exit_code)>>
        \o <<Lit("\nWorking directory: "), Chars(cwd)>>

\* output_text of a live execution
ComposeOutput(stdout_text, stderr_text, exit_code, cwd) ==
    LET p1 == IF stdout_text # <<>> THEN <<<<Lit("STDOUT:\n")>> \o stdout_text>> ELSE <<>>
        p2 == IF stderr_text # <<>> THEN <<<<Lit("STDERR:\n")>> \o stderr_text>> ELSE <<>>
        output_parts == p1 \o p2
        body == IF output_parts # <<>> THEN Join(<<Lit("\n\n")>>, output_parts)
                ELSE <<Lit("Command executed with no output")>>
    IN  body \o <<Lit("\n\nExit code: "), Num(exit_code)>>
             \o <<Lit("\nWorking directory: "), Chars(cwd)>>

\* a live result whose error flag follows the presence of stderr
LiveResultErrorOnStderr(stdout, stderr, exit_code, cwd) ==
    [output |-> ComposeOutput(TruncateOutput(stdout), TruncateOutput(stderr),
                              exit_code, cwd),
     exit_code |-> exit_code,
     error |-> stderr.len > 0]

\* the result dict of a live execution
LiveResult(stdout, stderr, exit_code, cwd) ==
    [output |-> ComposeOutput(TruncateOutput(stdout), TruncateOutput(stderr),
                              exit_code, cwd),
     exit_code |-> exit_code,
     error |-> exit_code # 0]

EmptyCommandResult ==
    [output |-> <<Lit("Error: Command cannot be empty")>>, exit_code |-> 1, error |-> TRUE]

NoDirectoryResult(cwd) ==
    [output |-> <<Lit("Error: Directory '"), Chars(cwd), Lit("' does not exist")>>,
     exit_code |-> 1, error |-> TRUE]

\* a timeout message that reports the default bound whatever bound was applied
TimeoutMessageDefault(timeout) ==
    <<Lit("Command timed out after "), Num(DEFAULT_TIMEOUT), Lit(" seconds")>>

\* str(e) of the TimeoutError raised by _execute_with_timeout
TimeoutMessage(timeout) ==
    <<Lit("Command timed out after "), Num(timeout), Lit(" seconds")>>

\* except TimeoutError
TimeoutResult(timeout) ==
    [output |-> <<Lit("Error: ")>> \o TimeoutMessage(timeout),
     exit_code |-> -1, error |-> TRUE]

\* except Exception
FaultResult(msg) ==
    [output |-> <<Lit("Error executing command: "), Lit(msg)>>,
     exit_code |-> -1, error |-> TRUE]

\* cached_result["output"] += "\n\n[Result from cache]" on the dict the cache holds
MarkCached(result) == [result EXCEPT !.output = @ \o <<Lit(CACHE_MARKER)>>]

\* cache_key = f"{command}:{cwd}"
CacheKey(command, cwd) == command \o <<":">> \o cwd

\* the argument None; every other argument is a sequence of characters
NONE == <<"None">>

\* cwd = working_directory if working_directory else self.current_directory:
\* None and the empty string are both false
ResolveCwd(working_directory) ==
    IF working_directory # NONE /\ working_directory # <<>>
    THEN working_directory ELSE current_directory

----------------------------------------------------------------------------
(* os.path on character sequences *)

\* os.environ
ENV_HOME == <<"H","O","M","E">>
Environ == [name \in {ENV_HOME} |-> HOME]

\* the characters of \w
WordChars ==
    {
      "A", "B", "C", "D", "E", "F", "G", "H", "I", "J", "K", "L", "M",
      "N", "O", "P", "Q", "R", "S", "T", "U", "V", "W", "X", "Y", "Z",
      "a", "b", "c", "d", "e", "f", "g", "h", "i", "j", "k", "l", "m",
      "n", "o", "p", "q", "r", "s", "t", "u", "v", "w", "x", "y", "z",
      "0", "1", "2", "3", "4", "5", "6", "7", "8", "9", "_" }

StartsWith(s, pre) == Len(s) >= Len(pre) /\ SubSeq(s, 1, Len(pre)) = pre

Drop(s, n) == SubSeq(s, n + 1, Len(s))

RECURSIVE TakeName(_)
TakeName(s) ==
    IF s = <<>> \/ Head(s) \notin WordChars THEN <<>>
    ELSE <<Head(s)>> \o TakeName(Tail(s))

RECURSIVE TakeUntil(_, _)
TakeUntil(s, c) ==
    IF s = <<>> \/ Head(s) = c THEN <<>> ELSE <<Head(s)>> \o TakeUntil(Tail(s), c)

\* os.path.expandvars: $name and ${name}, left alone when the variable is unset
RECURSIVE ExpandVars(_)
ExpandVars(s) ==
    IF s = <<>> THEN <<>>
    ELSE IF Head(s) # "$" THEN <<Head(s)>> \o ExpandVars(Tail(s))
    ELSE LET rest == Tail(s)
             name == TakeName(rest)
             braced == TakeUntil(Tail(rest), "}")
         IN  IF name # <<>>
             THEN (IF name \in DOMAIN Environ THEN Environ[name] ELSE <<"$">> \o name)
                  \o ExpandVars(Drop(rest, Len(name)))
             ELSE IF rest # <<>> /\ Head(rest) = "{" /\ Len(braced) + 1 < Len(rest)
             THEN (IF braced \in DOMAIN Environ THEN Environ[braced]
                   ELSE <<"$", "{">> \o braced \o <<"}">>)
                  \o ExpandVars(Drop(rest, Len(braced) + 2))
             ELSE <<"$">> \o ExpandVars(rest)

\* str.rstrip('/')
RECURSIVE RStripSlash(_)
RStripSlash(s) ==
    IF s # <<>> /\ s[Len(s)] = "/" THEN RStripSlash(SubSeq(s, 1, Len(s) - 1)) ELSE s

\* os.path.expanduser: no other user has a home in the model
ExpandUser(s) ==
    IF ~StartsWith(s, <<"~">>) THEN s
    ELSE LET user == TakeUntil(Tail(s), "/")
             out == RStripSlash(HOME) \o Drop(s, Len(user) + 1)
         IN  IF user # <<>> THEN s
             ELSE IF out = <<>> THEN <<"/">> ELSE out

\* os.path.isabs
IsAbs(s) == StartsWith(s, <<"/">>)

\* a join that forgets the directory a relative path is relative to
PathJoinProcessCwd(a, b) == b

\* os.path.join of two paths
PathJoin(a, b) ==
    IF IsAbs(b) THEN b
    ELSE IF a = <<>> \/ a[Len(a)] = "/" THEN a \o b
    ELSE a \o <<"/">> \o b

\* str.split('/')
RECURSIVE SplitSlash(_)
SplitSlash(s) ==
    LET c == TakeUntil(s, "/")
    IN  IF Len(c) = Len(s) THEN <<c>> ELSE <<c>> \o SplitSlash(Drop(s, Len(c) + 1))

\* the loop of os.path.normpath over the components
RECURSIVE NormComps(_, _, _)
NormComps(comps, new_comps, initial_slashes) ==
    IF comps = <<>> THEN new_comps
    ELSE LET comp == Head(comps)
             up == <<".", ".">>
         IN  IF comp = <<>> \/ comp = <<".">>
             THEN NormComps(Tail(comps), new_comps, initial_slashes)
             ELSE IF comp # up \/ (initial_slashes = 0 /\ new_comps = <<>>)
                     \/ (new_comps # <<>> /\ new_comps[Len(new_comps)] = up)
             THEN NormComps(Tail(comps), Append(new_comps, comp), initial_slashes)
             ELSE IF new_comps # <<>>
             THEN NormComps(Tail(comps), SubSeq(new_comps, 1, Len(new_comps) - 1),
                            initial_slashes)
             ELSE NormComps(Tail(comps), new_comps, initial_slashes)

\* os.path.normpath
NormPath(path) ==
    LET initial_slashes ==
            IF ~StartsWith(path, <<"/">>) THEN 0
            ELSE IF StartsWith(path, <<"/", "/">>) /\ ~StartsWith(path, <<"/", "/", "/">>)
                 THEN 2 ELSE 1
        joined == Join(<<"/">>, NormComps(SplitSlash(path), <<>>, initial_slashes))
        out == (IF initial_slashes = 2 THEN <<"/", "/">>
                ELSE IF initial_slashes = 1 THEN <<"/">> ELSE <<>>) \o joined
    IN  IF path = <<>> \/ out = <<>> THEN <<".">> ELSE out

\* os.path.abspath: the process's own working directory is the root
AbsPath(path) == NormPath(IF IsAbs(path) THEN path ELSE PathJoin(ROOT, path))

\* the path change_directory resolves
ResolvePath(path) ==
    LET expanded_path == ExpandUser(ExpandVars(path))
    IN  AbsPath(IF ~IsAbs(expanded_path)
                THEN PathJoin(current_directory, expanded_path)
                ELSE expanded_path)

----------------------------------------------------------------------------
(* Inputs *)

CMD_PWD == <<"p","w","d">>
CMD_LS == <<"l","s"," ","-","l">>
CMD_FIND == <<"f","i","n","d"," ",".">>
CMD_BLANK == <<" ">>

Commands == {CMD_PWD, CMD_LS, CMD_FIND, CMD_BLANK, <<>>}

\* working_directory arguments
WorkingDirs == {NONE, HOME, MISSING}

\* path arguments of change_directory
CdPaths == {MISSING, AFILE, LOCKED, <<"~">>, <<"w">>}

\* what a child can write and how it can exit
NoStream == [tag |-> "", len |-> 0]
OUT_SHORT == [tag |-> "o1", len |-> 3]
OUT_LONG == [tag |-> "o2", len |-> MAX_OUTPUT_SIZE + 1]
ERR_SHORT == [tag |-> "e1", len |-> 4]
Outcomes ==
    { [stdout |-> OUT_SHORT, stderr |-> NoStream, code |-> 0],
      [stdout |-> OUT_LONG, stderr |-> ERR_SHORT, code |-> 0],
      [stdout |-> NoStream, stderr |-> NoStream, code |-> 1],
      [stdout |-> NoStream, stderr |-> ERR_SHORT, code |-> 2] }

\* str(e) of the exceptions the environment raises
SPAWN_FAULT == "[Errno 13] Permission denied"
IO_FAULT == "[Errno 5] Input/output error"
SIGNAL_FAULT == "[Errno 3] No such process"

----------------------------------------------------------------------------
(* State *)

EmptyMap == [k \in {} |-> 0]

\* purged: the lookup of the call deleted an expired entry (line 62)
NoCall == [command |-> <<>>, cwd |-> <<>>, cache_key |-> <<>>, timeout |-> 0,
           purged |-> FALSE]
NoProc == [leader |-> "none", desc |-> "none"]
NoSup == [spawned |-> 0, steps |-> <<>>]
NoLast == [op |-> "none", kind |-> "none", command |-> <<>>, cwd |-> <<>>, ref |-> 0,
           result |-> [output |-> <<>>, error |-> FALSE], at |-> 0]

BaseDirs == {ROOT, HOME, LOCKED}

\* ShellExecutor.__init__: when the workspace cannot be created the fallback
\* assignment of _initialize_workspace is overwritten by line 79
Init ==
    /\ fs \in {BaseDirs \cup {CLAUDE_WORKSPACE_DIR}, BaseDirs}
    /\ has_killpg \in BOOLEAN
    /\ current_directory = CLAUDE_WORKSPACE_DIR
    /\ cache = EmptyMap
    /\ heap = EmptyMap
    /\ now = 0
    /\ pc = "idle"
    /\ call = NoCall
    /\ proc = NoProc
    /\ sup = NoSup
    /\ last = NoLast
    /\ escaped = FALSE
    /\ parked = <<>>

\* the dicts the cache c refers to
CacheRefs(c) == {c[k].ref : k \in DOMAIN c}

\* the dicts that stay when only `refs` are still referenced
Keep(h, refs) == [r \in DOMAIN h \cap refs |-> h[r]]

\* the identity of a new dict
NewId == CHOOSE n \in 1..(Cardinality(CacheRefs(cache)) + 1) : n \notin CacheRefs(cache)

\* a new dict `result` with identity `id`
Alloc(h, id, result) == [r \in DOMAIN h \cup {id} |-> IF r = id THEN result ELSE h[r]]

\* execute_command returns `h[ref]` to the caller; c is the cache it leaves
Return(kind, command, cwd, ref, h, c) ==
    /\ last' = [op |-> "execute", kind |-> kind, command |-> command, cwd |-> cwd,
                ref |-> ref, result |-> h[ref], at |-> now]
    /\ heap' = Keep(h, CacheRefs(c) \cup {ref})
    /\ cache' = c
    /\ pc' = "idle"

\* execute_command with its except TimeoutError clause alone
ExecuteExceptTimeoutOnly(exc) ==
    IF exc.type = "TimeoutError"
    THEN [escaped |-> FALSE, kind |-> "timeout", result |-> TimeoutResult(exc.timeout)]
    ELSE [escaped |-> TRUE, kind |-> "fault", result |-> FaultResult(exc.msg)]

\* the except clauses of execute_command: what the caller gets for an exception
ExecuteExcept(exc) ==
    IF exc.type = "TimeoutError"
    THEN [escaped |-> FALSE, kind |-> "timeout", result |-> TimeoutResult(exc.timeout)]
    ELSE [escaped |-> FALSE, kind |-> "fault", result |-> FaultResult(exc.msg)]

\* execute_command ends with exception `exc` raised inside its try block
Raise(exc) ==
    LET out == ExecuteExcept(exc)
    IN  IF out.escaped
        THEN /\ escaped' = TRUE
             /\ pc' = "idle"
             /\ UNCHANGED <<last, heap, cache>>
        ELSE /\ Return(out.kind, call.command, call.cwd, NewId,
                       Alloc(heap, NewId, out.result), cache)
             /\ UNCHANGED escaped

----------------------------------------------------------------------------
(* execute_command *)

\* execute_command with the timeout determined before the cache is consulted
ExecuteCallTimeoutFirst(command, working_directory) ==
    /\ pc = "idle"
    /\ proc' = NoProc
    /\ sup' = NoSup
    /\ LET cwd == ResolveCwd(working_directory)
           cache_key == CacheKey(command, cwd)
           cached_result == CacheGet(cache_key)
           h == Keep(heap, CacheRefs(cache))
           started == [command |-> command, cwd |-> cwd, cache_key |-> cache_key,
                       timeout |-> DetermineTimeout(command),
                       purged |-> CacheAfterGet(cache_key) # cache]
       IN  IF command = <<>> \/ Strip(command) = <<>>
           THEN /\ Return("empty", command, <<>>, NewId, Alloc(h, NewId, EmptyCommandResult), cache)
                /\ call' = NoCall
           ELSE IF ~Exists(cwd)
           THEN /\ Return("nodir", command, cwd, NewId,
                          Alloc(h, NewId, NoDirectoryResult(cwd)), cache)
                /\ call' = NoCall
           ELSE IF cached_result # 0
           THEN /\ Markers(heap[cached_result].output) < MaxMarkers
                /\ Return("hit", command, cwd, cached_result,
                          [h EXCEPT ![cached_result] = MarkCached(@)],
                          CacheAfterGet(cache_key))
                /\ call' = started
           ELSE /\ call' = started
                /\ cache' = CacheAfterGet(cache_key)
                /\ heap' = Keep(heap, CacheRefs(CacheAfterGet(cache_key)))
                /\ last' = NoLast
                /\ pc' = "spawn"
    /\ UNCHANGED <<parked, current_directory, now, has_killpg, fs, escaped>>

\* lines 203-233: validation, cache lookup, timeout; suspends in the spawn
ExecuteCall(command, working_directory) ==
    /\ pc = "idle"
    /\ proc' = NoProc
    /\ sup' = NoSup
    /\ LET cwd == ResolveCwd(working_directory)
           cache_key == CacheKey(command, cwd)
           cached_result == CacheGet(cache_key)
           h == Keep(heap, CacheRefs(cache))
       IN  IF command = <<>> \/ Strip(command) = <<>>
           THEN /\ Return("empty", command, <<>>, NewId, Alloc(h, NewId, EmptyCommandResult), cache)
                /\ call' = NoCall
           ELSE IF ~Exists(cwd)
           THEN /\ Return("nodir", command, cwd, NewId,
                          Alloc(h, NewId, NoDirectoryResult(cwd)), cache)
                /\ call' = NoCall
           ELSE IF cached_result # 0
           THEN /\ Markers(heap[cached_result].output) < MaxMarkers
                /\ Return("hit", command, cwd, cached_result,
                          [h EXCEPT ![cached_result] = MarkCached(@)],
                          CacheAfterGet(cache_key))
                /\ call' = NoCall
           ELSE /\ call' = [command |-> command, cwd |-> cwd, cache_key |-> cache_key,
                            timeout |-> DetermineTimeout(command),
                            purged |-> CacheAfterGet(cache_key) # cache]
                /\ cache' = CacheAfterGet(cache_key)
                /\ heap' = Keep(heap, CacheRefs(CacheAfterGet(cache_key)))
                /\ last' = NoLast
                /\ pc' = "spawn"
    /\ UNCHANGED <<parked, current_directory, now, has_killpg, fs, escaped>>

\* asyncio.create_subprocess_shell succeeded: the shell child leads a new group
SpawnOk ==
    /\ pc = "spawn"
    /\ IsDir(call.cwd)
    /\ proc' = [leader |-> "running", desc |-> "none"]
    /\ sup' = [sup EXCEPT !.spawned = @ + 1]
    /\ pc' = "wait"
    /\ UNCHANGED <<parked, current_directory, cache, heap, now, call, has_killpg, fs, last, escaped>>

\* asyncio.create_subprocess_shell raised: lines 191-199 with process = None
SpawnFail ==
    /\ pc = "spawn"
    /\ sup' = [sup EXCEPT !.steps = Append(@, "spawn_raised")]
    /\ Raise([type |-> "Exception", msg |-> SPAWN_FAULT, timeout |-> 0])
    /\ UNCHANGED <<parked, current_directory, now, call, proc, has_killpg, fs>>

\* the shell child starts a descendant in its process group
Fork ==
    /\ pc = "wait"
    /\ proc.leader = "running"
    /\ proc.desc = "none"
    /\ proc' = [proc EXCEPT !.desc = "running"]
    /\ UNCHANGED <<parked, current_directory, cache, heap, now, pc, call, has_killpg, fs,
                   sup, last, escaped>>

\* the shell child exits (and is reaped by the child watcher) while a
\* descendant keeps the pipes open: communicate() keeps waiting
LeaderExit ==
    /\ pc = "wait"
    /\ proc.leader = "running"
    /\ proc.desc = "running"
    /\ proc' = [proc EXCEPT !.leader = "exited"]
    /\ UNCHANGED <<parked, current_directory, cache, heap, now, pc, call, has_killpg, fs,
                   sup, last, escaped>>

\* a completion after which the executor stays in the directory the command ran in
ChildCompleteChdir(o) ==
    /\ pc = "wait"
    /\ proc' = NoProc
    /\ LET result == LiveResult(o.stdout, o.stderr, o.code, call.cwd)
       IN  Return("live", call.command, call.cwd, NewId, Alloc(heap, NewId, result),
                  CacheSet(cache, call.cache_key, NewId, result))
    /\ current_directory' = call.cwd
    /\ UNCHANGED <<parked, now, call, has_killpg, fs, sup, escaped>>

\* a completion that shapes and stores its result for the executor's directory
\* of that moment
ChildCompleteCurrent(o) ==
    /\ pc = "wait"
    /\ proc' = NoProc
    /\ LET result == LiveResult(o.stdout, o.stderr, o.code, current_directory)
       IN  Return("live", call.command, current_directory, NewId, Alloc(heap, NewId, result),
                  CacheSet(cache, CacheKey(call.command, current_directory), NewId, result))
    /\ UNCHANGED <<parked, current_directory, now, call, has_killpg, fs, sup, escaped>>

\* communicate() returns before the timeout: lines 159 and 238-262; the handle
\* of the finished child is dropped
ChildComplete(o) ==
    /\ pc = "wait"
    /\ proc' = NoProc
    /\ LET result == LiveResult(o.stdout, o.stderr, o.code, call.cwd)
       IN  Return("live", call.command, call.cwd, NewId, Alloc(heap, NewId, result),
                  CacheSet(cache, call.cache_key, NewId, result))
    /\ UNCHANGED <<parked, current_directory, now, call, has_killpg, fs, sup, escaped>>

----------------------------------------------------------------------------
(* _execute_with_timeout: the timeout and fault paths *)

Step(name) == [sup EXCEPT !.steps = Append(@, name)]
Steps2(a, b) == [sup EXCEPT !.steps = @ \o <<a, b>>]

\* a signal reaches a running process, which exits (dies = TRUE) or ignores it
Hit(state, dies) == IF state = "running" /\ dies THEN "exited" ELSE state

\* os.getpgid(process.pid) finds the shell child: it has not exited and been reaped
PidAlive == proc.leader = "running"

\* what SIGKILL leaves of a process it is delivered to
Killed(state) == IF state = "running" THEN "exited" ELSE state

\* line 173: os.killpg(os.getpgid(process.pid), signal.SIGKILL), errors swallowed
GroupKill ==
    IF PidAlive
    THEN [p |-> [leader |-> Killed(proc.leader), desc |-> Killed(proc.desc)], step |-> "kill"]
    ELSE [p |-> proc, step |-> "kill_raised"]

\* lines 179-180: if process.returncode is None: process.kill()
SingleKill ==
    IF proc.leader = "running"
    THEN [p |-> [proc EXCEPT !.leader = Killed(@)], step |-> "kill"]
    ELSE [p |-> proc, step |-> "kill_skipped"]

\* asyncio.TimeoutError at line 161 and the graceful signal of lines 165-168 (to
\* the group) or 177 (to the shell child); the engine suspends in asyncio.sleep(1)
TimeoutTerm(leaderDies, descDies) ==
    /\ pc = "wait"
    /\ PidAlive \/ ~has_killpg
    /\ proc.leader # "running" => leaderDies
    /\ (proc.desc # "running" \/ ~has_killpg) => descDies
    /\ proc' = IF has_killpg
               THEN [leader |-> Hit(proc.leader, leaderDies), desc |-> Hit(proc.desc, descDies)]
               ELSE [proc EXCEPT !.leader = Hit(@, leaderDies)]
    /\ sup' = Step("term")
    /\ pc' = "grace"
    /\ UNCHANGED <<parked, current_directory, cache, heap, now, call, has_killpg, fs, last, escaped>>

\* a graceful signal that raises and takes the final wait with it
TimeoutTermRaisesUnreaped ==
    /\ pc = "wait"
    /\ sup' = Step("term_raised")
    /\ Raise([type |-> "TimeoutError", msg |-> "", timeout |-> call.timeout])
    /\ UNCHANGED <<parked, current_directory, now, call, proc, has_killpg, fs>>

\* asyncio.TimeoutError at line 161 and a graceful signal that raises (the pid
\* is gone, or the signal is not permitted): lines 181-182, then the final wait
TimeoutTermRaises ==
    /\ pc = "wait"
    /\ sup' = Step("term_raised")
    /\ pc' = "reap"
    /\ UNCHANGED <<parked, current_directory, cache, heap, now, call, proc, has_killpg, fs,
                   last, escaped>>

\* asyncio.sleep(1) is over: lines 171-175 or 179-180, then the final wait
GraceElapsed ==
    /\ pc = "grace"
    /\ LET k == IF has_killpg THEN GroupKill ELSE SingleKill
       IN  /\ proc' = k.p
           /\ sup' = Steps2("grace", k.step)
    /\ pc' = "reap"
    /\ UNCHANGED <<parked, current_directory, cache, heap, now, call, has_killpg, fs, last, escaped>>

\* lines 184-189: process.wait() returns within its 5 seconds; TimeoutError
ReapDone ==
    /\ pc = "reap"
    /\ proc.leader = "exited"
    /\ sup' = Step("reap")
    /\ Raise([type |-> "TimeoutError", msg |-> "", timeout |-> call.timeout])
    /\ UNCHANGED <<parked, current_directory, now, call, proc, has_killpg, fs>>

\* a final wait without a bound: it returns when the shell child has exited
ReapUnbounded ==
    /\ pc = "reap"
    /\ proc.leader = "exited"
    /\ sup' = Step("reap")
    /\ Raise([type |-> "TimeoutError", msg |-> "", timeout |-> call.timeout])
    /\ UNCHANGED <<parked, current_directory, now, call, proc, has_killpg, fs>>

\* lines 184-189: the shell child outlives the 5 seconds of the final wait
ReapTimeout ==
    /\ pc = "reap"
    /\ proc.leader = "running"
    /\ sup' = Step("reap_timeout")
    /\ Raise([type |-> "TimeoutError", msg |-> "", timeout |-> call.timeout])
    /\ UNCHANGED <<parked, current_directory, now, call, proc, has_killpg, fs>>

\* communicate() raises something that is not a timeout: lines 191-196
IOFault(leaderDies) ==
    /\ pc = "wait"
    /\ proc.leader # "running" => leaderDies
    /\ proc' = [proc EXCEPT !.leader = Hit(@, leaderDies)]
    /\ sup' = Step("fault_term")
    /\ pc' = "faultreap"
    /\ UNCHANGED <<parked, current_directory, cache, heap, now, call, has_killpg, fs, last, escaped>>

\* lines 196-199: the bounded wait is over, the exception is raised again
FaultReap ==
    /\ pc = "faultreap"
    /\ sup' = Step("fault_reap")
    /\ Raise([type |-> "Exception", msg |-> IO_FAULT, timeout |-> 0])
    /\ UNCHANGED <<parked, current_directory, now, call, proc, has_killpg, fs>>

----------------------------------------------------------------------------
(* change_directory and get_current_directory *)

CdMessage(pre, abs_path, post) ==
    IF post = "" THEN <<Lit(pre), Chars(abs_path)>>
    ELSE <<Lit(pre), Chars(abs_path), Lit(post)>>

\* the result of change_directory(path); listFault: os.listdir raises another error
CdResult(path, listFault) ==
    LET abs_path == ResolvePath(path)
    IN  IF ~Exists(abs_path)
        THEN [ok |-> FALSE, abs_path |-> abs_path, output |-> CdMessage("Error: Directory '", abs_path, "' does not exist")]
        ELSE IF ~IsDir(abs_path)
        THEN [ok |-> FALSE, abs_path |-> abs_path, output |-> CdMessage("Error: '", abs_path, "' is not a directory")]
        ELSE IF ListDenied(abs_path)
        THEN [ok |-> FALSE, abs_path |-> abs_path, output |->
                CdMessage("Error: Permission denied accessing directory '", abs_path, "'")]
        ELSE IF listFault
        THEN [ok |-> FALSE, abs_path |-> abs_path, output |->
                CdMessage("Error: Cannot access directory '", abs_path, "': ")
                \o <<Lit(IO_FAULT)>>]
        ELSE [ok |-> TRUE, abs_path |-> abs_path, output |-> CdMessage("Changed directory to: ", abs_path, "")]

\* a directory operation returns `result`
DirReturn(op, path, result) ==
    /\ last' = [op |-> op, kind |-> IF result.error THEN "error" ELSE "ok",
                command |-> <<>>, cwd |-> path, ref |-> 0, result |-> result, at |-> now]
    /\ heap' = Keep(heap, CacheRefs(cache))

\* a change_directory that assigns the resolved path before validating it
ChangeDirectoryEager(path, listFault) ==
    /\ pc = "idle"
    /\ LET r == CdResult(path, listFault)
       IN  /\ DirReturn("cd", path, [output |-> r.output, error |-> ~r.ok])
           /\ current_directory' = r.abs_path
    /\ UNCHANGED <<parked, cache, now, pc, call, proc, has_killpg, fs, sup, escaped>>

ChangeDirectory(path, listFault) ==
    /\ pc = "idle"
    /\ LET r == CdResult(path, listFault)
       IN  /\ DirReturn("cd", path, [output |-> r.output, error |-> ~r.ok])
           /\ current_directory' = IF r.ok THEN r.abs_path ELSE current_directory
    /\ UNCHANGED <<parked, cache, now, pc, call, proc, has_killpg, fs, sup, escaped>>

\* a get_current_directory that reports the directory the executor started in
GetCurrentDirectoryInitial ==
    /\ pc = "idle"
    /\ DirReturn("pwd", <<>>,
                 [output |-> <<Lit("Current directory: "), Chars(CLAUDE_WORKSPACE_DIR)>>,
                  error |-> FALSE])
    /\ UNCHANGED <<parked, current_directory, cache, now, pc, call, proc, has_killpg, fs, sup, escaped>>

GetCurrentDirectory ==
    /\ pc = "idle"
    /\ DirReturn("pwd", <<>>,
                 [output |-> <<Lit("Current directory: "), Chars(current_directory)>>,
                  error |-> FALSE])
    /\ UNCHANGED <<parked, current_directory, cache, now, pc, call, proc, has_killpg, fs, sup, escaped>>

----------------------------------------------------------------------------
(* time.time() advances *)

\* the clock moves in steps far longer than the 1 s and 5 s waits of the timeout
\* path, so it moves while the engine is idle or waits for the child
Tick(d) ==
    /\ pc \in {"idle", "wait"}
    /\ now + d <= MaxTime
    /\ now' = now + d
    /\ UNCHANGED <<parked, current_directory, cache, heap, pc, call, proc, has_killpg, fs,
                   sup, last, escaped>>

----------------------------------------------------------------------------

\* every operation, on every input of the model
Next ==
    \/ \E c \in Commands, w \in WorkingDirs : ExecuteCall(c, w)
    \/ SpawnOk
    \/ SpawnFail
    \/ Fork
    \/ LeaderExit
    \/ \E o \in Outcomes : ChildComplete(o)
    \/ \E ld, dd \in BOOLEAN : TimeoutTerm(ld, dd)
    \/ TimeoutTermRaises
    \/ GraceElapsed
    \/ ReapDone
    \/ ReapTimeout
    \/ \E ld \in BOOLEAN : IOFault(ld)
    \/ FaultReap
    \/ \E p \in CdPaths, f \in BOOLEAN : ChangeDirectory(p, f)
    \/ GetCurrentDirectory
    \/ \E d \in TickSteps : Tick(d)

Spec == Init /\ [][Next]_vars

----------------------------------------------------------------------------
(* The cache and the three operations over time: children without descendants
   that honour the graceful signal, on a platform with process groups *)

CacheCommands == Commands \ {<<>>}

CacheOutcomes == {o \in Outcomes : o.stdout # OUT_LONG}
CacheCdPaths == {MISSING, <<"~">>}

\* the workspace directory could be created (line 88), on a platform with killpg
InitCache == Init /\ has_killpg /\ CLAUDE_WORKSPACE_DIR \in fs

NextCache ==
    \/ \E c \in CacheCommands, w \in WorkingDirs : ExecuteCall(c, w)
    \/ SpawnOk
    \/ SpawnFail
    \/ \E o \in CacheOutcomes : ChildComplete(o)
    \/ TimeoutTerm(TRUE, TRUE)
    \/ TimeoutTermRaises
    \/ GraceElapsed
    \/ ReapDone
    \/ ReapTimeout
    \/ IOFault(TRUE)
    \/ FaultReap
    \/ \E p \in CacheCdPaths, f \in BOOLEAN : ChangeDirectory(p, f)
    \/ GetCurrentDirectory
    \/ \E d \in TickSteps : Tick(d)

SpecCache == InitCache /\ [][NextCache]_vars

----------------------------------------------------------------------------
(* The supervision of the child: process groups with descendants, on both kinds
   of platform, while the clock stands still *)

SuperviseCommands == {CMD_LS, CMD_FIND}

NextSupervise ==
    \/ \E c \in SuperviseCommands : ExecuteCall(c, NONE)
    \/ SpawnOk
    \/ SpawnFail
    \/ Fork
    \/ LeaderExit
    \/ \E o \in Outcomes : ChildComplete(o)
    \/ \E ld, dd \in BOOLEAN : TimeoutTerm(ld, dd)
    \/ TimeoutTermRaises
    \/ GraceElapsed
    \/ ReapDone
    \/ ReapTimeout
    \/ \E ld \in BOOLEAN : IOFault(ld)
    \/ FaultReap

SpecSupervise == Init /\ [][NextSupervise]_vars

----------------------------------------------------------------------------
(* The directory operations and the validation of execute_command, in a file
   system where the workspace may be missing from the start or be removed *)

DirCommands == {CMD_LS, CMD_BLANK, <<>>}

\* None, the empty string, and two paths
DirWorkingDirs == {NONE, <<>>, CLAUDE_WORKSPACE_DIR, MISSING}

PARENT == <<".", ".">>
ENV_WORKSPACE == <<"$">> \o ENV_HOME \o <<"/", "w">>

DirCdPaths == CdPaths \cup {PARENT, ENV_WORKSPACE}

\* children that write no stderr
DirOutcomes == {o \in Outcomes : o.stderr = NoStream}

\* something outside the executor removes the workspace directory while the
\* executor is idle in another directory: os.path.exists then answers False
DirRemoved ==
    /\ pc = "idle"
    /\ CLAUDE_WORKSPACE_DIR \in fs
    /\ current_directory # CLAUDE_WORKSPACE_DIR
    /\ fs' = fs \ {CLAUDE_WORKSPACE_DIR}
    /\ UNCHANGED <<parked, current_directory, cache, heap, now, pc, call, proc, has_killpg,
                   sup, last, escaped>>

InitDir == Init /\ has_killpg

NextDir ==
    \/ \E w \in DirWorkingDirs : ExecuteCall(CMD_LS, w)
    \/ \E c \in DirCommands, w \in {NONE, MISSING} : ExecuteCall(c, w)
    \/ SpawnOk
    \/ SpawnFail
    \/ \E o \in DirOutcomes : ChildComplete(o)
    \/ \E p \in DirCdPaths : ChangeDirectory(p, FALSE)
    \/ ChangeDirectory(<<"~">>, TRUE)
    \/ GetCurrentDirectory
    \/ DirRemoved

SpecDir == InitDir /\ [][NextDir]_vars

\* the same, from the constructions in which the workspace could be created
InitDirReady == InitDir /\ CLAUDE_WORKSPACE_DIR \in fs

SpecDirReady == InitDirReady /\ [][NextDir]_vars

----------------------------------------------------------------------------
(* The timeout of a command: commands that match the long-running names by
   their first token, by a substring only, or not at all *)

\* the whole command is a listed name
CMD_DU == <<"d","u">>
\* a command that holds the name "cp" without having it as a token
CMD_CAT == <<"c","a","t"," ","c","p","u">>

TimeoutCommands == {CMD_FIND, CMD_DU, CMD_CAT, CMD_LS, CMD_PWD, CMD_BLANK, <<>>}

InitTimeout == Init /\ has_killpg /\ CLAUDE_WORKSPACE_DIR \in fs

NextTimeout ==
    \/ \E c \in TimeoutCommands : ExecuteCall(c, NONE)
    \/ SpawnOk
    \/ SpawnFail
    \/ \E o \in Outcomes : ChildComplete(o)
    \/ TimeoutTerm(TRUE, TRUE)
    \/ GraceElapsed
    \/ ReapDone

SpecTimeout == InitTimeout /\ [][NextTimeout]_vars

----------------------------------------------------------------------------
(* The tool handlers in front of the executor *)

\* get_workspace_directory
GetWorkspaceDirectory ==
    /\ pc = "idle"
    /\ DirReturn("workspace", <<>>,
                 [output |-> <<Lit("Claude workspace directory: "), Chars(CLAUDE_WORKSPACE_DIR)>>,
                  error |-> FALSE])
    /\ UNCHANGED <<parked, current_directory, cache, now, pc, call, proc, has_killpg, fs, sup, escaped>>

Tool(name, properties, required) ==
    [name |-> name, properties |-> properties, required |-> required]

\* handle_list_tools: the Tool entries with the property names and the required
\* list of their inputSchema (no "required" key: none required)
ListTools ==
    <<Tool("execute_command", {"command", "working_directory"}, {"command"}),
      Tool("change_directory", {"path"}, {"path"}),
      Tool("get_current_directory", {}, {}),
      Tool("get_workspace_directory", {}, {})>>

\* a call of handle_list_tools returns
HandleListTools ==
    /\ pc = "idle"
    /\ last' = [op |-> "list_tools", kind |-> "ok", command |-> <<>>, cwd |-> <<>>, ref |-> 0,
                result |-> [output |-> <<>>, error |-> FALSE, tools |-> ListTools], at |-> now]
    /\ heap' = Keep(heap, CacheRefs(cache))
    /\ UNCHANGED <<parked, current_directory, cache, now, pc, call, proc, has_killpg, fs, sup, escaped>>

\* argument values as Python sees them
PyNone == [t |-> "none", v |-> <<>>, n |-> 0]
PyInt(n) == [t |-> "int", v |-> <<>>, n |-> n]
PyStr(v) == [t |-> "str", v |-> v, n |-> 0]

\* arguments.get(key)
Get(arguments, key) == IF key \in DOMAIN arguments THEN arguments[key] ELSE PyNone

\* bool(value)
Truthy(value) ==
    CASE value.t = "none" -> FALSE
      [] value.t = "int" -> value.n # 0
      [] value.t = "str" -> value.v # <<>>

\* isinstance(value, str)
IsStr(value) == value.t = "str"

\* [TextContent(type="text", text=...)]
TextContent(text) == [type |-> "text", text |-> text]

\* handle_call_tool returns an error text of its own, the executor not called
ToolError(text) ==
    /\ last' = [op |-> "call_tool", kind |-> "error", command |-> <<>>, cwd |-> <<>>, ref |-> 0,
                result |-> [output |-> text, error |-> TRUE], at |-> now]
    /\ heap' = Keep(heap, CacheRefs(cache))
    /\ UNCHANGED <<parked, current_directory, cache, now, pc, call, proc, has_killpg, fs, sup, escaped>>

\* a handle_call_tool that hands whatever arrives as a string to the executor
HandleCallToolLax(name, arguments) ==
    CASE name = "execute_command" ->
            IF ~IsStr(Get(arguments, "command"))
            THEN ToolError(<<Lit("Error: Command parameter is required and must be a string")>>)
            ELSE ExecuteCall(Get(arguments, "command").v, NONE)
      [] name = "change_directory" ->
            IF ~IsStr(Get(arguments, "path"))
            THEN ToolError(<<Lit("Error: Path parameter is required and must be a string")>>)
            ELSE ChangeDirectory(Get(arguments, "path").v, FALSE)
      [] OTHER -> ToolError(<<Lit("Error: Unknown tool '"), Lit(name), Lit("'")>>)

\* handle_call_tool up to the call of the executor; what the executor returns
\* is wrapped when it returns (ToolReply)
HandleCallTool(name, arguments) ==
    CASE name = "execute_command" ->
            LET command == Get(arguments, "command")
                working_dir == Get(arguments, "working_directory")
            IN  IF ~Truthy(command) \/ ~IsStr(command)
                THEN ToolError(<<Lit("Error: Command parameter is required and must be a string")>>)
                ELSE IF working_dir # PyNone /\ ~IsStr(working_dir)
                THEN ToolError(<<Lit("Error: Working directory must be a string")>>)
                ELSE ExecuteCall(command.v, IF working_dir = PyNone THEN NONE ELSE working_dir.v)
      [] name = "change_directory" ->
            LET path == Get(arguments, "path")
            IN  IF ~Truthy(path) \/ ~IsStr(path)
                THEN ToolError(<<Lit("Error: Path parameter is required and must be a string")>>)
                ELSE ChangeDirectory(path.v, FALSE)
      [] name = "get_current_directory" -> GetCurrentDirectory
      [] name = "get_workspace_directory" -> GetWorkspaceDirectory
      [] OTHER -> ToolError(<<Lit("Error: Unknown tool '"), Lit(name), Lit("'")>>)

\* what handle_call_tool returned last: the output of the executor's result, or
\* its own error text, as one text item; str(e) of an exception that reached
\* its except clause
ToolReply ==
    IF escaped THEN <<TextContent(<<Lit("Error: "), Lit(IO_FAULT)>>)>>
    ELSE <<TextContent(last.result.output)>>

ToolNames ==
    {"execute_command", "change_directory", "get_current_directory",
     "get_workspace_directory", "run"}

CommandValues == {PyNone, PyInt(0), PyInt(5), PyStr(<<>>), PyStr(CMD_LS), PyStr(CMD_BLANK)}
WorkingDirValues == {PyInt(5), PyStr(HOME), PyStr(MISSING)}
PathValues == {PyNone, PyInt(0), PyInt(5), PyStr(<<>>), PyStr(MISSING), PyStr(<<"~">>)}

ToolArguments ==
    {EmptyMap}
    \cup { [k \in {"command"} |-> c] : c \in CommandValues }
    \cup { [k \in {"command", "working_directory"} |-> IF k = "command" THEN c ELSE w] :
             c \in CommandValues, w \in WorkingDirValues }
    \cup { [k \in {"path"} |-> p] : p \in PathValues }

ToolOutcomes == {[stdout |-> OUT_SHORT, stderr |-> NoStream, code |-> 0],
                 [stdout |-> NoStream, stderr |-> ERR_SHORT, code |-> 2]}

InitTools == Init /\ has_killpg /\ CLAUDE_WORKSPACE_DIR \in fs

NextTools ==
    \/ HandleListTools
    \/ \E name \in ToolNames, arguments \in ToolArguments : HandleCallTool(name, arguments)
    \/ SpawnOk
    \/ SpawnFail
    \/ \E o \in ToolOutcomes : ChildComplete(o)

SpecTools == InitTools /\ [][NextTools]_vars

----------------------------------------------------------------------------
(* The cache key when ":" occurs in a command and in the name of a directory *)

\* "ls a:/h" and "ls a"
CMD_LS_COLON == <<"l","s"," ","a",":","/","h">>
CMD_LS_A == <<"l","s"," ","a">>

\* the directories /h: and /h:/h
COLON == HOME \o <<":">>
COLON_HOME == COLON \o HOME

KeyCommands == {CMD_LS_COLON, CMD_LS_A}
KeyWorkingDirs == {HOME, COLON_HOME}

\* something outside the executor makes the directories /h: and /h:/h
DirMade ==
    /\ pc = "idle"
    /\ COLON \notin fs
    /\ fs' = fs \cup {COLON, COLON_HOME}
    /\ UNCHANGED <<parked, current_directory, cache, heap, now, pc, call, proc, has_killpg,
                   sup, last, escaped>>

InitKey == Init /\ has_killpg /\ CLAUDE_WORKSPACE_DIR \in fs

NextKey ==
    \/ DirMade
    \/ \E c \in KeyCommands, w \in KeyWorkingDirs : ExecuteCall(c, w)
    \/ SpawnOk
    \/ SpawnFail
    \/ \E o \in ToolOutcomes : ChildComplete(o)

SpecKey == InitKey /\ [][NextKey]_vars

----------------------------------------------------------------------------
(* What execute leaves alone: commands that change the shell's own directory,
   explicit working directories, every outcome *)

\* "cd /"
CMD_CD == <<"c","d"," ","/">>

FrameCommands == {CMD_CD, CMD_LS, CMD_BLANK}
FrameWorkingDirs == {NONE, HOME, MISSING}
FrameCdPaths == {MISSING, <<"~">>, PARENT}

InitFrame == Init /\ has_killpg /\ CLAUDE_WORKSPACE_DIR \in fs

NextFrame ==
    \/ \E c \in FrameCommands, w \in FrameWorkingDirs : ExecuteCall(c, w)
    \/ SpawnOk
    \/ SpawnFail
    \/ \E o \in ToolOutcomes : ChildComplete(o)
    \/ TimeoutTerm(TRUE, TRUE)
    \/ GraceElapsed
    \/ ReapDone
    \/ \E p \in FrameCdPaths : ChangeDirectory(p, FALSE)
    \/ GetCurrentDirectory

SpecFrame == InitFrame /\ [][NextFrame]_vars

----------------------------------------------------------------------------
(* Several calls on one executor: the handlers are coroutines on one event
   loop, which runs another call only while the running one is at an await *)

\* a call set aside at an await may be at any position
SuspendedAnywhere == {"idle", "spawn", "wait", "grace", "reap", "faultreap"}

\* the positions of an execute_command call at which it awaits: the spawn
\* (line 145), communicate (154), the grace sleep (170, 178) and the reaps
\* (185, 196)
Suspended == {"spawn", "wait", "grace", "reap", "faultreap"}

Frame == [pc |-> pc, call |-> call, proc |-> proc, sup |-> sup]

Without(seq, i) == SubSeq(seq, 1, i - 1) \o SubSeq(seq, i + 1, Len(seq))

\* the running call awaits and the event loop starts the handler of another request
Park ==
    /\ pc \in Suspended
    /\ Len(parked) + 1 < MaxInFlight
    /\ parked' = Append(parked, Frame)
    /\ pc' = "idle"
    /\ call' = NoCall
    /\ proc' = NoProc
    /\ sup' = NoSup
    /\ UNCHANGED <<current_directory, cache, heap, now, has_killpg, fs, last, escaped>>

\* the running call awaits or has returned and the event loop goes on with
\* call i, the awaiting one set aside in its place
Resume(i) ==
    /\ i \in 1..Len(parked)
    /\ pc \in Suspended \cup {"idle"}
    /\ pc' = parked[i].pc
    /\ call' = parked[i].call
    /\ proc' = parked[i].proc
    /\ sup' = parked[i].sup
    /\ parked' = IF pc = "idle" THEN Without(parked, i) ELSE [parked EXCEPT ![i] = Frame]
    /\ UNCHANGED <<current_directory, cache, heap, now, has_killpg, fs, last, escaped>>

AsyncCdPaths == {<<"~">>, MISSING}

InitAsync == Init /\ has_killpg /\ CLAUDE_WORKSPACE_DIR \in fs

NextAsync ==
    \/ \E c \in {CMD_LS, CMD_BLANK} : ExecuteCall(c, NONE)
    \/ SpawnOk
    \/ SpawnFail
    \/ \E o \in ToolOutcomes : ChildComplete(o)
    \/ TimeoutTerm(TRUE, TRUE)
    \/ GraceElapsed
    \/ ReapDone
    \/ \E p \in AsyncCdPaths : ChangeDirectory(p, FALSE)
    \/ GetCurrentDirectory
    \/ Park
    \/ \E i \in 1..(MaxInFlight - 1) : Resume(i)

SpecAsync == InitAsync /\ [][NextAsync]_vars

----------------------------------------------------------------------------
(* The shaping of the output: streams that are empty, short, exactly as long
   as the maximum, and longer *)

OUT_MAX == [tag |-> "o3", len |-> MAX_OUTPUT_SIZE]
ERR_LONG == [tag |-> "e2", len |-> MAX_OUTPUT_SIZE + 2]

ShapeStreams == {NoStream, OUT_SHORT, OUT_MAX, OUT_LONG, ERR_SHORT, ERR_LONG}

ShapeOutcomes ==
    { [stdout |-> so, stderr |-> se, code |-> c] :
        so \in {NoStream, OUT_SHORT, OUT_MAX, OUT_LONG},
        se \in {NoStream, ERR_SHORT, ERR_LONG},
        c \in {0, 1} }

InitShape == Init /\ has_killpg /\ CLAUDE_WORKSPACE_DIR \in fs

NextShape ==
    \/ \E c \in {CMD_LS, CMD_FIND} : ExecuteCall(c, NONE)
    \/ SpawnOk
    \/ SpawnFail
    \/ \E o \in ShapeOutcomes : ChildComplete(o)

SpecShape == InitShape /\ [][NextShape]_vars

----------------------------------------------------------------------------
(* Vocabulary of the properties *)

Returned(kind) == pc = "idle" /\ last.op = "execute" /\ last.kind = kind

Did(step) == \E i \in 1..Len(sup.steps) : sup.steps[i] = step

HasPiece(out, piece) == \E i \in 1..Len(out) : out[i] = piece

\* the stdout block of an output: what follows "STDOUT:\n" up to the blank line
RECURSIVE UpToBlank(_)
UpToBlank(out) ==
    IF out = <<>> \/ Head(out) = Lit("\n\n") THEN <<>>
    ELSE <<Head(out)>> \o UpToBlank(Tail(out))

StdoutOf(out) ==
    IF out # <<>> /\ Head(out) = Lit("STDOUT:\n") THEN UpToBlank(Tail(out)) ELSE <<>>

\* the first whitespace-delimited token of a command is on the cache-eligible list
Eligible(command) == Split(command) # <<>> /\ Split(command)[1] \in CACHEABLE_COMMANDS

----------------------------------------------------------------------------
(* C1 *)

\* C1: when an eligible command (also a single-word one such as pwd) has just
\* run live with exit code 0 and is executed again by the same executor in the
\* same resolved directory inside the cache window, the first response carries
\* no cache marker, the second one carries it, and both have the same exit code
\* and the same stdout content.
C1_CacheRoundTrip ==
    [][\A c \in Commands, w \in WorkingDirs :
        (/\ Returned("live")
         /\ last.result.exit_code = 0
         /\ last.command = c
         /\ Eligible(c)
         /\ last.cwd = ResolveCwd(w)
         /\ now - last.at < CACHE_DURATION
         /\ ExecuteCall(c, w))
        => (/\ Markers(last.result.output) = 0
            /\ last'.kind = "hit"
            /\ Markers(last'.result.output) >= 1
            /\ last'.result.exit_code = last.result.exit_code
            /\ StdoutOf(last'.result.output) = StdoutOf(last.result.output))]_vars

----------------------------------------------------------------------------
(* C2 *)

\* C2: a cache hit never mutates the stored entry: the dict the cache holds (the
\* one handed to the caller of the live execution) has the same output before
\* and after the hit, and every hit returns the original output followed by
\* exactly one cache marker.
C2_HitCopies ==
    [][\A c \in Commands, w \in WorkingDirs :
        (ExecuteCall(c, w) /\ last'.kind = "hit")
        => LET entry == cache[CacheKey(c, ResolveCwd(w))]
           IN  /\ heap'[entry.ref] = heap[entry.ref]
               /\ heap[entry.ref] = entry.live
               /\ last'.result.output = entry.live.output \o <<Lit(CACHE_MARKER)>>
               /\ Markers(last'.result.output) = 1]_vars

----------------------------------------------------------------------------
(* C3 *)

NobodyRunning == proc.leader # "running" /\ proc.desc # "running"

\* C3: after execute returns a timeout result on a platform with process groups,
\* the graceful signal having been delivered to the group, no process of the
\* group is still running - also when the leader exited on the graceful signal
\* and a descendant ignored it.
C3_GroupGone ==
    (Returned("timeout") /\ has_killpg /\ Did("term")) => NobodyRunning

----------------------------------------------------------------------------
(* C4 *)

\* the orders in which a timeout is supervised
TimeoutOrders ==
    { <<"term", "grace", "kill", "reap">>,
      <<"term", "grace", "kill_raised", "reap">>,
      <<"term", "grace", "kill_skipped", "reap">>,
      <<"term_raised", "reap">>,
      <<"term_raised", "reap_timeout">> }

\* C4: on timeout the steps are, in this order, the graceful signal, the grace
\* wait, the forceful signal (delivered only to a shell child or group that is
\* still alive) and the final bounded wait; the final wait is performed on every
\* timeout path, also when sending a signal raises.
C4_SupervisionOrder ==
    /\ [](Returned("timeout") => sup.steps \in TimeoutOrders)
    /\ [](pc = "grace" => sup.steps = <<"term">>)
    /\ [](pc = "reap" =>
            \E o \in TimeoutOrders : sup.steps = SubSeq(o, 1, Len(o) - 1))
    /\ [][(~Did("kill") /\ Did("kill")') => (pc = "grace" /\ proc.leader = "running")]_vars

\* a timeout whose forceful signal was delivered, and one whose graceful signal raised
C4_Witness ==
    Returned("timeout") /\ Did("kill") /\ sup.steps[Len(sup.steps)] = "reap"

----------------------------------------------------------------------------
(* C5 *)

\* C5: a call whose child is still there when the timeout elapses returns
\* failed=true and exitCode=-1 with an output that states the timeout and the
\* bound computed for the command; the command was spawned once, and the cache
\* holds nothing for the call.
C5_TimeoutResult ==
    Returned("timeout") =>
        /\ last.result.error
        /\ last.result.exit_code = -1
        /\ last.result.output =
              <<Lit("Error: "), Lit("Command timed out after "),
                Num(DetermineTimeout(last.command)), Lit(" seconds")>>
        /\ DetermineTimeout(last.command) \in {DEFAULT_TIMEOUT, MAX_TIMEOUT}
        /\ sup.spawned = 1
        /\ CacheKey(last.command, last.cwd) \notin DOMAIN cache
        /\ last.ref \notin CacheRefs(cache)

C5_Witness == Returned("timeout") /\ last.command = CMD_FIND

----------------------------------------------------------------------------
(* C6 *)

\* the timer of asyncio.wait_for(process.communicate(), timeout) fires
TimerFires == (\E ld, dd \in BOOLEAN : TimeoutTerm(ld, dd)) \/ TimeoutTermRaises

\* the event loop runs every timer and every finished spawn; nothing makes the
\* child write, exit or obey
FairSupervise ==
    /\ SpecSupervise
    /\ WF_vars(SpawnOk \/ SpawnFail)
    /\ WF_vars(TimerFires)
    /\ WF_vars(GraceElapsed)
    /\ WF_vars(ReapDone \/ ReapTimeout)
    /\ WF_vars(FaultReap)

\* C6: every execute call eventually returns a result, whatever the child does:
\* every wait after the timeout is bounded.
C6_EveryCallReturns == [](pc # "idle" => <>(pc = "idle"))

\* a call that returned although the shell child never exited
C6_Witness == Returned("timeout") /\ proc.leader = "running"

----------------------------------------------------------------------------
(* C7 *)

\* C7: the result of an execute call with a non-empty command and an existing
\* working directory - live run, cache hit, timeout or caught fault - is
\* returned, not raised, and has failed = (exitCode # 0).
C7_FailedIffNonZero ==
    /\ ~escaped
    /\ (pc = "idle" /\ last.op = "execute" /\ last.kind \notin {"empty", "nodir"}) =>
          /\ last.kind \in {"live", "hit", "timeout", "fault"}
          /\ Strip(last.command) # <<>>
          /\ Exists(last.cwd)
          /\ last.result.error = (last.result.exit_code # 0)

C7_Witness == Returned("hit") /\ ~last.result.error

----------------------------------------------------------------------------
(* C8 *)

\* the messages of the exceptions raised during the last call
FaultsRaised ==
    (IF Did("spawn_raised") THEN {SPAWN_FAULT} ELSE {})
    \cup (IF Did("fault_term") THEN {IO_FAULT} ELSE {})
    \cup (IF Did("term_raised") \/ Did("kill_raised") THEN {SIGNAL_FAULT} ELSE {})

ExecuteReturned == pc = "idle" /\ last.op = "execute"

\* C8 as stated: no exception escapes, every failure is a result with
\* failed=true, and a fault during spawn, IO or timeout handling that is not a
\* timeout yields failed=true, exitCode=-1 with the fault's message in the output.
C8_FaultMessage ==
    /\ ~escaped
    /\ (ExecuteReturned /\ FaultsRaised # {}) =>
          /\ last.result.error
          /\ last.result.exit_code = -1
          /\ \A m \in FaultsRaised : HasPiece(last.result.output, Lit(m))

\* C8 as amended: no exception escapes and every failure is a result with
\* failed=true; a fault of the spawn or of the IO yields failed=true,
\* exitCode=-1 with the fault's message; a fault raised by a signal during
\* timeout handling is swallowed, and the call returns the timeout result.
C8_NoEscape ==
    /\ ~escaped
    /\ (ExecuteReturned /\ last.kind \in {"empty", "nodir", "timeout", "fault"}) =>
          last.result.error
    /\ (ExecuteReturned /\ (Did("spawn_raised") \/ Did("fault_term"))) =>
          /\ last.kind = "fault"
          /\ last.result.error
          /\ last.result.exit_code = -1
          /\ last.result.output =
                <<Lit("Error executing command: "),
                  Lit(IF Did("spawn_raised") THEN SPAWN_FAULT ELSE IO_FAULT)>>
    /\ (ExecuteReturned /\ (Did("term_raised") \/ Did("kill_raised"))) =>
          /\ last.kind = "timeout"
          /\ last.result = TimeoutResult(DetermineTimeout(last.command))
          /\ ~HasPiece(last.result.output, Lit(SIGNAL_FAULT))
    /\ (last.op = "cd" /\ ~last.result.error) =>
          IsDir(current_directory) /\ ~ListDenied(current_directory)
    /\ last.op = "pwd" => ~last.result.error

C8_Witness == Returned("fault") /\ Did("fault_term")

----------------------------------------------------------------------------
(* C9 *)

LastKey == CacheKey(last.command, last.cwd)

\* C9: the cache never holds a result with failed=true: a run that exits
\* non-zero, times out or faults leaves nothing stored for its key, and a
\* response served from the cache is never a failed one.
C9_NoFailedCached ==
    /\ \A k \in DOMAIN cache :
          ~heap[cache[k].ref].error /\ heap[cache[k].ref].exit_code = 0
    /\ Returned("hit") => ~last.result.error
    /\ (ExecuteReturned /\ last.kind \in {"live", "timeout", "fault"} /\ last.result.error)
          => LastKey \notin DOMAIN cache

\* an eligible command that would be stored had it succeeded has just failed
C9_Witness ==
    /\ Returned("live")
    /\ last.result.error
    /\ CommandStart(LastKey) \in CACHEABLE_COMMANDS

----------------------------------------------------------------------------
(* C10 *)

Paths == BaseDirs \cup {CLAUDE_WORKSPACE_DIR}

\* C10: every cache entry belongs to a command whose first token is on the
\* cache-eligible list: a successful run of any other command leaves nothing
\* stored for its key, and a response served from the cache is never one of its.
C10_OnlyEligibleCached ==
    /\ \A k \in DOMAIN cache : \E c \in Commands, d \in Paths : k = CacheKey(c, d)
    /\ \A c \in Commands, d \in Paths : CacheKey(c, d) \in DOMAIN cache => Eligible(c)
    /\ Returned("hit") => Eligible(last.command)
    /\ (Returned("live") /\ ~Eligible(last.command)) => LastKey \notin DOMAIN cache

\* a command that is not on the list has just exited 0
C10_Witness == Returned("live") /\ ~last.result.error /\ ~Eligible(last.command)

----------------------------------------------------------------------------
(* C11 *)

\* the entry under key k is older than the cache allows
TooOld(k) == now - cache[k].timestamp >= CACHE_DURATION

\* this step is an execute call that misses the cache and goes on to spawn
Misses == pc = "idle" /\ pc' = "spawn"

\* this step is an execute call served from the cache
Hits == pc = "idle" /\ pc' = "idle" /\ last' # last /\ last'.op = "execute"
        /\ last'.kind = "hit"

\* C11: a lookup returns a stored result only while now - insertedAt < maxAge;
\* a lookup that finds the entry expired removes it (and nothing else) and the
\* call runs live; entries leave the cache in no other way; the result of the
\* live run carries no cache marker.
C11_Expiry ==
    /\ [][Hits =>
            LET k == CacheKey(last'.command, last'.cwd)
            IN  /\ k \in DOMAIN cache
                /\ now - cache[k].timestamp < CACHE_DURATION
                /\ cache' = cache]_vars
    /\ [][Misses =>
            LET k == call'.cache_key
            IN  /\ k = CacheKey(call'.command, call'.cwd)
                /\ k \in DOMAIN cache => TooOld(k)
                /\ call'.purged = (k \in DOMAIN cache)
                /\ DOMAIN cache' = DOMAIN cache \ {k}
                /\ \A j \in DOMAIN cache' : cache'[j] = cache[j]]_vars
    /\ [][\A k \in DOMAIN cache \ DOMAIN cache' :
            Misses /\ k = call'.cache_key /\ TooOld(k)]_vars
    /\ []((Returned("live") /\ call.purged) => Markers(last.result.output) = 0)

\* the live result of a call whose lookup deleted the expired entry
C11_Witness == Returned("live") /\ call.purged /\ ~last.result.error

----------------------------------------------------------------------------
(* C12 *)

\* C12: a cache hit returns at once: no subprocess is spawned for it and no
\* timeout is determined or applied; a subprocess is spawned only by a call
\* that missed the cache.
C12_HitSpawnsNothing ==
    /\ [](Returned("hit") => (sup = NoSup /\ proc = NoProc /\ call = NoCall))
    /\ [][Hits => (sup'.spawned = 0 /\ proc'.leader = "none" /\ call'.timeout = 0)]_vars
    /\ [][(pc = "idle" /\ last'.kind = "hit") => pc' = "idle"]_vars
    /\ [][sup'.spawned > sup.spawned => (pc = "spawn" /\ call.timeout > 0
                                         /\ call.cache_key \notin DOMAIN cache)]_vars

\* a hit on an entry of the home directory
C12_Witness == Returned("hit") /\ sup.spawned = 0 /\ last.cwd = HOME

----------------------------------------------------------------------------
(* C13 *)

\* an absolute path of an existing directory that can be listed
ValidDirectory(p) == p # <<>> /\ p[1] = "/" /\ p \in fs /\ p # LOCKED

\* C13: in every reachable state current_directory is an absolute path of an
\* existing, readable directory.
C13_CurrentDirectoryValid == ValidDirectory(current_directory)

----------------------------------------------------------------------------
(* C14 *)

\* the directories the executor can be in
Home == <<"/", "h">>
Workspace == <<"/", "h", "/", "w">>
Root == <<"/">>

\* what change_directory(path) has to resolve to from directory cur:
\* written out for the paths of the model
Expected(cur, path) ==
    CASE path = <<"~">> -> Home
      [] path = ENV_WORKSPACE -> Workspace
      [] path = <<"w">> /\ cur = Home -> Workspace
      [] path = <<"w">> /\ cur = Workspace -> <<"/", "h", "/", "w", "/", "w">>
      [] path = <<"w">> /\ cur = Root -> <<"/", "w">>
      [] path = PARENT /\ cur = Workspace -> Home
      [] path = PARENT /\ cur = Home -> Root
      [] path = PARENT /\ cur = Root -> Root
      [] OTHER -> path

\* this step is a change_directory call (last.cwd holds its argument)
Changes == pc = "idle" /\ last' # last /\ last'.op = "cd"

\* the message of a failed change to target t
FailureMessage(t) ==
    IF t \notin fs /\ t # AFILE
    THEN <<Lit("Error: Directory '"), Chars(t), Lit("' does not exist")>>
    ELSE IF t \notin fs
    THEN <<Lit("Error: '"), Chars(t), Lit("' is not a directory")>>
    ELSE IF t = LOCKED
    THEN <<Lit("Error: Permission denied accessing directory '"), Chars(t), Lit("'")>>
    ELSE <<Lit("Error: Cannot access directory '"), Chars(t), Lit("': "), Lit(IO_FAULT)>>

\* C14: a failed change_directory returns error=true with the message of its
\* cause (does not exist / not a directory / permission denied / other) and
\* leaves current_directory and the cache as they were; a change to a target
\* that is not a valid directory always fails.
C14_FailedChangeFrame ==
    /\ [][(Changes /\ last'.result.error) =>
            /\ current_directory' = current_directory
            /\ cache' = cache
            /\ \A k \in DOMAIN cache : heap'[cache[k].ref] = heap[cache[k].ref]
            /\ last'.result.output =
                  FailureMessage(Expected(current_directory, last'.cwd))]_vars
    /\ [][(Changes /\ ~ValidDirectory(Expected(current_directory, last'.cwd))) =>
            last'.result.error]_vars

\* a change to a regular file has failed while the cache holds an entry
C14_Witness ==
    /\ pc = "idle" /\ last.op = "cd" /\ last.result.error /\ last.cwd = AFILE
    /\ cache # EmptyMap

----------------------------------------------------------------------------
(* C15 *)

\* C15: a change_directory that succeeds sets current_directory to the
\* expanded, normalized absolute path - a relative path resolved against the
\* previous current_directory - and confirms with that path; a change to a
\* valid directory fails only when listing it raises; an execute call without
\* working directory then runs in current_directory.
C15_ChangeResolves ==
    /\ [][(Changes /\ ~last'.result.error) =>
            /\ current_directory' = Expected(current_directory, last'.cwd)
            /\ ValidDirectory(current_directory')
            /\ last'.result.output =
                  <<Lit("Changed directory to: "), Chars(current_directory')>>
            /\ cache' = cache]_vars
    /\ [][(Changes /\ last'.result.error
           /\ ValidDirectory(Expected(current_directory, last'.cwd))) =>
            last'.result.output =
               <<Lit("Error: Cannot access directory '"),
                 Chars(Expected(current_directory, last'.cwd)), Lit("': "),
                 Lit(IO_FAULT)>>]_vars
    /\ [][(ExecuteCall(CMD_LS, NONE) /\ pc' = "spawn") =>
            call'.cwd = current_directory]_vars
    /\ [][(pc = "spawn" /\ pc' = "wait") => call.cwd \in fs]_vars

\* the relative path "w" has been resolved against the home directory
C15_Witness ==
    /\ pc = "idle" /\ last.op = "cd" /\ ~last.result.error /\ last.cwd = <<"w">>
    /\ current_directory = Workspace

----------------------------------------------------------------------------
(* C16 *)

\* the directory a call has to use: the value supplied, else current_directory
Supplied(w) == IF w = NONE THEN current_directory ELSE w

\* C16: cwd = working_directory if one is supplied, else current_directory;
\* a supplied value is the one validated and used, and the one resolved cwd
\* serves the existence check, the spawn, the cache key and the footer line.
C16_SuppliedDirectoryUsed ==
    /\ [][\A c \in {CMD_LS}, w \in DirWorkingDirs :
            ExecuteCall(c, w) =>
                /\ (Supplied(w) \notin fs /\ Supplied(w) # AFILE) =>
                      (last'.kind = "nodir" /\ last'.cwd = Supplied(w))
                /\ pc' = "spawn" =>
                      /\ call'.cwd = Supplied(w)
                      /\ call'.cache_key = c \o <<":">> \o Supplied(w)
                /\ last'.kind = "hit" => last'.cwd = Supplied(w)]_vars
    /\ [](Returned("live") =>
            /\ last.cwd = call.cwd
            /\ last.result.output[Len(last.result.output)] = Chars(call.cwd))

----------------------------------------------------------------------------
(* C17 *)

\* this step is an execute call that returns without waiting
Returns == pc = "idle" /\ pc' = "idle" /\ last' # last /\ last'.op = "execute"

\* the commands that are empty after trimming
Blank == {<<>>, CMD_BLANK}

\* C17: execute with an empty or whitespace-only command returns error=true,
\* exit_code=1 and the "cannot be empty" message; nothing is spawned and
\* neither the cache nor current_directory changes.
C17_EmptyCommand ==
    /\ [][(Returns /\ last'.command \in Blank) =>
            /\ last'.result = [output |-> <<Lit("Error: Command cannot be empty")>>,
                               exit_code |-> 1, error |-> TRUE]
            /\ sup'.spawned = 0
            /\ proc'.leader = "none"
            /\ cache' = cache
            /\ \A k \in DOMAIN cache : heap'[cache[k].ref] = heap[cache[k].ref]
            /\ current_directory' = current_directory]_vars
    /\ [](pc # "idle" => call.command \notin Blank)
    /\ [](sup.spawned > 0 => call.command \notin Blank)

\* a whitespace-only command was refused while the cache holds an entry
C17_Witness == Returned("empty") /\ last.command = CMD_BLANK /\ cache # EmptyMap

----------------------------------------------------------------------------
(* C18 *)

\* C18: execute whose resolved working directory does not exist returns
\* error=true, exit_code=1 and the "does not exist" message; nothing is
\* spawned and the cache is neither read nor written: an entry stored earlier
\* for the same command and directory stays and is not served.
C18_MissingDirectory ==
    /\ [][(Returns /\ last'.command \notin Blank
           /\ last'.cwd \notin fs /\ last'.cwd # AFILE) =>
            /\ last'.result =
                  [output |-> <<Lit("Error: Directory '"), Chars(last'.cwd),
                                Lit("' does not exist")>>,
                   exit_code |-> 1, error |-> TRUE]
            /\ sup'.spawned = 0
            /\ proc'.leader = "none"
            /\ cache' = cache
            /\ \A k \in DOMAIN cache : heap'[cache[k].ref] = heap[cache[k].ref]]_vars
    /\ [](pc # "idle" => (call.cwd \in fs))
    /\ [][sup'.spawned > sup.spawned => call.cwd \in fs]_vars

\* the directory of a stored entry is gone, and the entry was not served
C18_Witness ==
    /\ Returned("nodir")
    /\ CacheKey(last.command, last.cwd) \in DOMAIN cache

----------------------------------------------------------------------------
(* C19 *)

\* this step is a get_current_directory call
Reads == pc = "idle" /\ last' # last /\ last'.op = "pwd"

\* C19: get_current_directory returns error=false with the current value of
\* current_directory and changes neither current_directory nor the cache.
C19_PureRead ==
    /\ [][Reads =>
            /\ last'.result = [output |-> <<Lit("Current directory: "),
                                            Chars(current_directory)>>,
                               error |-> FALSE]
            /\ current_directory' = current_directory
            /\ cache' = cache
            /\ \A k \in DOMAIN cache : heap'[cache[k].ref] = heap[cache[k].ref]
            /\ fs' = fs]_vars
    /\ []((pc = "idle" /\ last.op = "pwd") =>
            (~last.result.error
             /\ last.result.output[2] = Chars(current_directory)))

\* the home directory was reported after a change, the cache holding an entry
C19_Witness ==
    /\ pc = "idle" /\ last.op = "pwd" /\ current_directory = Home
    /\ cache # EmptyMap

----------------------------------------------------------------------------
(* C20 *)

\* the commands of the model that match the long-running names, by hand:
\* "find ." and "du" by their first token, "cat cpu" by containing "cp"
LongExpected == {CMD_FIND, CMD_DU, CMD_CAT}

TimeoutExpected(c) == IF c \in LongExpected THEN MAX_TIMEOUT ELSE DEFAULT_TIMEOUT

\* C20: the timeout of a command is one of the two configured bounds: the long
\* one when its first token is a long-running name or its text contains one,
\* the default one otherwise, a command without tokens included; it is the
\* bound the call waits for and the timeout result reports.
C20_TimeoutBounds ==
    /\ \A c \in TimeoutCommands :
          /\ DetermineTimeout(c) \in {DEFAULT_TIMEOUT, MAX_TIMEOUT}
          /\ DetermineTimeout(c) = TimeoutExpected(c)
    /\ pc # "idle" => call.timeout = TimeoutExpected(call.command)
    /\ Returned("timeout") =>
          last.result.output[3] = Num(TimeoutExpected(last.command))

\* a command that only contains a listed name has run into the long bound
C20_Witness == Returned("timeout") /\ last.command = CMD_CAT /\ call.timeout = MAX_TIMEOUT

----------------------------------------------------------------------------
(* C21 *)

Footer(code, cwd) ==
    <<Lit("\n\nExit code: "), Num(code), Lit("\nWorking directory: "), Chars(cwd)>>

\* the output of a live execution with shaped streams so and se, case by case
ExpectedOutput(so, se, code, cwd) ==
    CASE so # <<>> /\ se # <<>> ->
            <<Lit("STDOUT:\n")>> \o so \o <<Lit("\n\n"), Lit("STDERR:\n")>> \o se
                \o Footer(code, cwd)
      [] so # <<>> /\ se = <<>> -> <<Lit("STDOUT:\n")>> \o so \o Footer(code, cwd)
      [] so = <<>> /\ se # <<>> -> <<Lit("STDERR:\n")>> \o se \o Footer(code, cwd)
      [] so = <<>> /\ se = <<>> ->
            <<Lit("Command executed with no output")>> \o Footer(code, cwd)

\* C21: the output of a live execution is the STDOUT block if stdout is not
\* empty, then after a blank line the STDERR block if stderr is not empty, or
\* "Command executed with no output" when both are empty, always followed by
\* the footer with the exit code and the resolved working directory.
C21_OutputComposed ==
    Returned("live") =>
        \E o \in ShapeOutcomes :
            last.result =
                [output |-> ExpectedOutput(TruncateOutput(o.stdout), TruncateOutput(o.stderr),
                                           o.code, call.cwd),
                 exit_code |-> o.code,
                 error |-> o.code # 0]

\* a command that wrote nothing has returned
C21_Witness ==
    Returned("live") /\ last.result.output[1] = Lit("Command executed with no output")

----------------------------------------------------------------------------
(* C22 *)

\* the pieces of the output from the one that equals `from` up to the blank
\* line or the footer
RECURSIVE UpToEnd(_)
UpToEnd(out) ==
    IF out = <<>> \/ Head(out) \in {Lit("\n\n"), Lit("\n\nExit code: ")} THEN <<>>
    ELSE <<Head(out)>> \o UpToEnd(Tail(out))

RECURSIVE Block(_, _)
Block(out, from) ==
    IF out = <<>> THEN <<>>
    ELSE IF Head(out) = from THEN UpToEnd(Tail(out))
    ELSE Block(Tail(out), from)

\* C22: each stream is truncated on its own: a stream longer than the maximum
\* becomes its first max characters followed by the notice naming that count,
\* a stream of at most max characters is left unchanged, and a shaped stream
\* is never longer than max plus the 55 characters of the notice.
C22_Truncation ==
    /\ \A st \in ShapeStreams :
          LET shaped == TruncateOutput(st)
          IN  /\ st.len > MAX_OUTPUT_SIZE =>
                    /\ shaped[1] = Text(st.tag, MAX_OUTPUT_SIZE)
                    /\ SubSeq(shaped, 2, Len(shaped)) =
                          <<Lit("\n... (output truncated, showing first "),
                            Num(MAX_OUTPUT_SIZE), Lit(" characters)")>>
                    /\ TextLen(shaped) = MAX_OUTPUT_SIZE + 55
              /\ st.len <= MAX_OUTPUT_SIZE =>
                    (TextLen(shaped) = st.len /\ shaped = Decode(st))
              /\ TextLen(shaped) <= MAX_OUTPUT_SIZE + 55
    /\ Returned("live") =>
          /\ TextLen(Block(last.result.output, Lit("STDOUT:\n"))) <= MAX_OUTPUT_SIZE + 55
          /\ TextLen(Block(last.result.output, Lit("STDERR:\n"))) <= MAX_OUTPUT_SIZE + 55
          /\ \E o \in ShapeOutcomes :
                /\ Block(last.result.output, Lit("STDOUT:\n")) = TruncateOutput(o.stdout)
                /\ Block(last.result.output, Lit("STDERR:\n")) = TruncateOutput(o.stderr)

\* a stdout of exactly the maximum came through whole next to a cut stderr
C22_Witness ==
    /\ Returned("live")
    /\ Block(last.result.output, Lit("STDOUT:\n")) = <<Text("o3", MAX_OUTPUT_SIZE)>>
    /\ TextLen(Block(last.result.output, Lit("STDERR:\n"))) = MAX_OUTPUT_SIZE + 55

----------------------------------------------------------------------------
(* C23 *)

\* C23: the tool listing holds exactly three tools, execute_command,
\* change_directory and get_current_directory; execute_command declares
\* command as required and working_directory as an optional property.
C23_ThreeTools ==
    last.op = "list_tools" =>
        /\ Len(last.result.tools) = 3
        /\ {last.result.tools[i].name : i \in 1..Len(last.result.tools)} =
              {"execute_command", "change_directory", "get_current_directory"}
        /\ \E i \in 1..Len(last.result.tools) :
              /\ last.result.tools[i].name = "execute_command"
              /\ last.result.tools[i].properties = {"command", "working_directory"}
              /\ last.result.tools[i].required = {"command"}

----------------------------------------------------------------------------
(* C24 *)

\* the names handle_call_tool has a branch for
Dispatched ==
    {"execute_command", "change_directory", "get_current_directory", "get_workspace_directory"}

\* parameter `key` is missing, not a string, or the empty string
Unusable(arguments, key) ==
    \/ key \notin DOMAIN arguments
    \/ arguments[key].t # "str"
    \/ arguments[key].v = <<>>

ExecutorUntouched ==
    /\ UNCHANGED <<current_directory, cache, pc, call, proc, sup, fs, escaped>>
    /\ \A k \in DOMAIN cache : heap'[cache[k].ref] = heap[cache[k].ref]
    /\ last'.op = "call_tool"

\* C24: handle_call_tool raises nothing and returns exactly one text item; an
\* unknown tool name gives the "Unknown tool" text, and a missing, empty or
\* non-string command (execute_command) or path (change_directory) gives the
\* "required" text, the executor not called and its state unchanged.
C24_HandlerErrors ==
    /\ [](~escaped)
    /\ []((pc = "idle" /\ last.op \notin {"none", "list_tools"}) =>
            (Len(ToolReply) = 1 /\ ToolReply[1].type = "text" /\ ToolReply[1].text # <<>>))
    /\ [][\A name \in ToolNames, arguments \in ToolArguments :
            HandleCallTool(name, arguments) =>
                /\ name \notin Dispatched =>
                      /\ ToolReply' = <<TextContent(<<Lit("Error: Unknown tool '"), Lit(name),
                                                      Lit("'")>>)>>
                      /\ ExecutorUntouched
                /\ (name = "execute_command" /\ Unusable(arguments, "command")) =>
                      /\ ToolReply' = <<TextContent(
                            <<Lit("Error: Command parameter is required and must be a string")>>)>>
                      /\ ExecutorUntouched
                /\ (name = "change_directory" /\ Unusable(arguments, "path")) =>
                      /\ ToolReply' = <<TextContent(
                            <<Lit("Error: Path parameter is required and must be a string")>>)>>
                      /\ ExecutorUntouched]_vars

\* the handler refused a call after an execution had filled the cache
C24_Witness ==
    /\ pc = "idle"
    /\ last.op = "call_tool"
    /\ last.result.output = <<Lit("Error: Command parameter is required and must be a string")>>
    /\ cache # EmptyMap

----------------------------------------------------------------------------
(* C25 *)

\* the executor has been constructed and nothing has been called yet
Constructed == pc = "idle" /\ last = NoLast

\* C25: when the workspace directory could not be created during construction
\* the executor starts in the home directory, not in the workspace path that
\* does not exist.
C25_FallbackHome ==
    (Constructed /\ CLAUDE_WORKSPACE_DIR \notin fs) => current_directory = HOME

----------------------------------------------------------------------------
(* C26 *)

\* this step is the return of a live execution
Completes == pc = "wait" /\ pc' = "idle" /\ last'.op = "execute" /\ last'.kind = "live"

\* C26: cache entries are written by live executions only: a hit leaves the
\* entry, its stored result and its timestamp as they were, every entry that is
\* new or changed is that of the live execution returning at this instant, and
\* a hit is served less than maxAge after that execution, whatever the number
\* of hits in between.
C26_NoSlidingExpiry ==
    /\ [][Hits =>
            LET k == CacheKey(last'.command, last'.cwd)
            IN  /\ cache' = cache
                /\ cache'[k].timestamp = cache[k].timestamp
                /\ heap'[cache[k].ref] = heap[cache[k].ref]]_vars
    /\ [][\A k \in DOMAIN cache' :
            (k \notin DOMAIN cache \/ cache'[k] # cache[k]) =>
                /\ Completes
                /\ k = call.cache_key
                /\ cache'[k].timestamp = now]_vars
    /\ [](Returned("hit") => last.at - cache[LastKey].timestamp < CACHE_DURATION)

----------------------------------------------------------------------------
(* C27 *)

\* C27: a hit is served only to a request with the command and the resolved
\* directory of the live execution that stored the entry, also when ":" occurs
\* in the command or in the directory: when the latest live execution had the
\* key of this hit (it is the one that stored the entry), its command and its
\* directory are those of the request.
C27_HitSamePair ==
    [][(Hits /\ call.cache_key = CacheKey(last'.command, last'.cwd)) =>
            (last'.command = call.command /\ last'.cwd = call.cwd)]_vars

----------------------------------------------------------------------------
(* C28 *)

\* C28: execute never changes current_directory, whatever the command (a
\* "cd ..." too), the working directory passed and the outcome; the only step
\* that changes it is a change_directory that returns without error.
C28_ExecuteFrame ==
    /\ [][current_directory' # current_directory =>
            (Changes /\ ~last'.result.error /\ current_directory' = last'.result.output[2].cs)]_vars
    /\ [][(pc # "idle" \/ (last' # last /\ last'.op = "execute")) =>
            current_directory' = current_directory]_vars

\* "cd /" ran in the home directory and returned exit code 0, the executor
\* still in the workspace
C28_Witness ==
    /\ Returned("live")
    /\ last.command = CMD_CD
    /\ last.cwd = HOME
    /\ ~last.result.error
    /\ current_directory = CLAUDE_WORKSPACE_DIR

----------------------------------------------------------------------------
(* C29 *)

\* the locals of the execute calls in flight
InFlight ==
    (IF pc # "idle" THEN {call} ELSE {}) \cup {parked[i].call : i \in 1..Len(parked)}

\* the directory named in the footer of a live result
FooterDirectory(out) == out[Len(out)].cs

\* this step is the prefix of an execute call that goes on to spawn, or the
\* suffix of one that returns a live result: no step of the event loop
Starts == Misses /\ parked' = parked
Finishes == Completes /\ parked' = parked

\* C29: an execute call without working directory resolves the executor's
\* directory at its start; the locals of a call in flight never change,
\* whatever completes meanwhile; the child is spawned in the resolved
\* directory, and the live result names it in its footer and is stored under
\* the key made of it, never under the directory a change_directory moved the
\* executor to in the meantime.
C29_DirectoryAtStart ==
    /\ [][Starts =>
            /\ call'.cwd = current_directory
            /\ call'.cache_key = CacheKey(call'.command, current_directory)]_vars
    /\ [][InFlight' \subseteq InFlight \cup (IF Starts THEN {call'} ELSE {})]_vars
    /\ [][(pc = "spawn" /\ pc' = "wait" /\ parked' = parked) =>
            (call' = call /\ call.cwd \in fs)]_vars
    /\ [][Finishes =>
            /\ last'.cwd = call.cwd
            /\ FooterDirectory(last'.result.output) = call.cwd
            /\ \A k \in DOMAIN cache' :
                  (k \notin DOMAIN cache \/ cache'[k] # cache[k]) =>
                      k = CacheKey(call.command, call.cwd)]_vars

\* "ls -l", started in the workspace, returned after the executor had moved to
\* the home directory: reported and stored for the workspace
C29_Witness ==
    /\ Returned("live")
    /\ last.command = CMD_LS
    /\ last.cwd = CLAUDE_WORKSPACE_DIR
    /\ current_directory = HOME
    /\ CacheKey(CMD_LS, CLAUDE_WORKSPACE_DIR) \in DOMAIN cache
    /\ CacheKey(CMD_LS, HOME) \notin DOMAIN cache

----------------------------------------------------------------------------
(* C30 *)

\* C30 as stated: another call runs only while the call in flight waits for
\* the output or the exit of its child or for the timeout.
C30_OnlyChildWait == \A i \in 1..Len(parked) : parked[i].pc = "wait"

\* C30: a call in flight is set aside for another only at the awaits of the
\* supervision of its child (spawn, wait for the output, grace sleep, reap),
\* its prefix done and its suffix not begun; change_directory,
\* get_current_directory, the prefix and the suffix of execute are single
\* steps; the directory changes together with its report, to an existing
\* directory, and every cache entry is whole.
C30_SuspensionPoints ==
    /\ [](\A i \in 1..Len(parked) :
            /\ parked[i].pc \in {"spawn", "wait", "grace", "reap", "faultreap"}
            /\ parked[i].call.cache_key =
                  CacheKey(parked[i].call.command, parked[i].call.cwd)
            /\ parked[i].call.timeout \in {DEFAULT_TIMEOUT, MAX_TIMEOUT}
            /\ parked[i].sup.spawned = (IF parked[i].pc = "spawn" THEN 0 ELSE 1))
    /\ [][last' # last => parked' = parked]_vars
    /\ [][(last' # last /\ last'.op \in {"cd", "pwd"}) =>
            (pc = "idle" /\ pc' = "idle" /\ cache' = cache /\ call' = call)]_vars
    /\ [][Starts => last' = NoLast]_vars
    /\ [][Finishes => (last'.at = now /\ proc' = NoProc)]_vars
    /\ [][current_directory' # current_directory =>
            /\ last'.op = "cd" /\ ~last'.result.error
            /\ current_directory' = last'.result.output[2].cs
            /\ current_directory' \in fs]_vars
    /\ [](\A k \in DOMAIN cache :
            /\ cache[k].ref \in DOMAIN heap
            /\ ~heap[cache[k].ref].error
            /\ ~cache[k].live.error
            /\ cache[k].timestamp <= now)

\* change_directory ran to its end while a timed-out call slept its grace
\* second and another call was started meanwhile
C30_Witness ==
    /\ pc = "idle"
    /\ last.op = "cd"
    /\ ~last.result.error
    /\ \E i \in 1..Len(parked) : parked[i].pc = "grace"

----------------------------------------------------------------------------
(* C31 *)

\* entry k is the same before and after the step, its stored result included
SameEntry(k) ==
    /\ k \in DOMAIN cache'
    /\ cache'[k] = cache[k]
    /\ heap'[cache'[k].ref] = heap[cache[k].ref]

\* C31: an entry leaves the cache only in the lookup of its own key that finds
\* it expired; the lookup of a key, whether it hits or misses, and the write of
\* a live result leave every entry of another key as it was; change_directory,
\* get_current_directory and the time passing leave every entry as it was; a
\* result that failed or whose command is not eligible leaves the cache
\* unchanged when it returns, as do the timeout and the fault results.
C31_CacheFrame ==
    /\ [][\A k \in DOMAIN cache \ DOMAIN cache' :
            Misses /\ k = call'.cache_key /\ TooOld(k)]_vars
    /\ [][Misses => \A k \in DOMAIN cache \ {call'.cache_key} : SameEntry(k)]_vars
    /\ [][Hits =>
            \A k \in DOMAIN cache \ {CacheKey(last'.command, last'.cwd)} : SameEntry(k)]_vars
    /\ [][Completes => \A k \in DOMAIN cache \ {call.cache_key} : SameEntry(k)]_vars
    /\ [][(Completes /\ (last'.result.error \/ ~Eligible(call.command))) =>
            (cache' = cache /\ \A k \in DOMAIN cache : SameEntry(k))]_vars
    /\ [][(last' # last /\ (last'.op \in {"cd", "pwd"}
                            \/ last'.kind \in {"timeout", "fault", "empty", "nodir"})) =>
            (cache' = cache /\ \A k \in DOMAIN cache : SameEntry(k))]_vars
    /\ [][now' # now => (cache' = cache /\ \A k \in DOMAIN cache : SameEntry(k))]_vars

\* the lookup of an expired entry has removed it and goes on to the spawn, an
\* entry of another key, itself expired, still in the cache
C31_Witness ==
    /\ pc = "spawn"
    /\ call.purged
    /\ \E k \in DOMAIN cache : k # call.cache_key /\ TooOld(k)

====
